---- MODULE Spec2Model ----
(***************************************************************************)
(* A model of bdk-sqlite: the async Store (src/src/async_store.rs) that    *)
(* maps BDK change sets to rows of eight SQLite tables and back, and the   *)
(* AsyncWalletPersister adapter built on it (src/src/wallet.rs).           *)
(*                                                                         *)
(* The database behind Store.pool is the state.  Every SQL statement of    *)
(* the source is an operator on that state; every public method is the     *)
(* sequence of statements its code issues, cut short where the code        *)
(* returns early (`?`) or aborts (`unwrap`).                               *)
(***************************************************************************)
EXTENDS Integers, Sequences, FiniteSets

\* ------------------------------------------------------------------ bounds
\* Unsigned 64-bit values (timestamps, satoshi amounts) are 1..MaxU64; the
\* signed storage integer holds 0..I64_MAX, one value short of the unsigned
\* range, as i64 is short of u64.
MaxU64 == 3
I64_MAX == MaxU64 - 1
\* Block heights 1..MaxHeight.
MaxHeight == 2
\* Derivation indices 0..MaxIndex.
MaxIndex == 1

\* ----------------------------------------------------------------- domains
U64Values    == 1..MaxU64
Heights      == 1..MaxHeight
\* Block hashes: 1 is the spec's hashA, 2 its hashB.  Integers, because the
\* BTreeSet of anchors iterates in the order of the hash.
BlockHashes  == {1, 2}
\* Transaction i has txid i.
Txids        == {1}
Vouts        == {0}
Scripts      == {"s1", "s2"}
Networks     == {"bitcoin", "testnet4"}
Descriptors  == {"wpkh(A)", "wpkh(B)"}
DescriptorIds == {1}
Indices      == 0..MaxIndex

\* Rust's Option and SQL's NULL: None is the empty tuple, Some(v) is <<v>>.
None    == <<>>
Some(v) == <<v>>
IsSome(o) == o # None
Unwrap(o) == o[1]

\* Partial functions from K to V (BTreeMap<K, V>).
PartialFns(K, V) == UNION {[D -> V] : D \in SUBSET K}
EmptyMap == [x \in {} |-> None]

\* ------------------------------------------------------------- Value codec
\* Txid::to_string / str::parse::<Txid>: a hex text of the id.
TxidToString(txid) == <<"txid-hex", txid>>
ParseTxid(s) == IF Len(s) = 2 /\ s[1] = "txid-hex" THEN Some(s[2]) ELSE None
\* BlockHash::to_string / parse.
HashToString(hash) == <<"hash-hex", hash>>
ParseHash(s) == IF Len(s) = 2 /\ s[1] = "hash-hex" THEN Some(s[2]) ELSE None
\* DescriptorId::to_string / parse.
DescriptorIdToString(d) == <<"did-hex", d>>
ParseDescriptorId(s) == IF Len(s) = 2 /\ s[1] = "did-hex" THEN Some(s[2]) ELSE None
\* consensus::encode::serialize(tx) / deserialize(&data): the blob of
\* transaction i; the empty blob (and anything else) does not deserialize.
Serialize(txid) == <<"raw-tx", txid>>
Deserialize(data) == IF Len(data) = 2 /\ data[1] = "raw-tx" THEN Some(data[2]) ELSE None
\* Network::to_string / str::parse::<Network>.
NetworkToString(n) == <<"network-text", n>>
ParseNetwork(s) == IF Len(s) = 2 /\ s[1] = "network-text" THEN Some(s[2]) ELSE None
\* Descriptor::to_string / Descriptor::from_str.
DescriptorToString(d) == <<"descriptor-text", d>>
DescriptorFromStr(s) == IF Len(s) = 2 /\ s[1] = "descriptor-text" THEN Some(s[2]) ELSE None
\* The cast `u as i64`: a value above i64::MAX wraps to a negative one.
I64Wrap(u) == Some(IF u <= I64_MAX THEN u ELSE u - (MaxU64 + 1))
\* i64::try_from(u64): fails above i64::MAX.
I64TryFrom(u) == IF u <= I64_MAX THEN Some(u) ELSE None
\* u64::try_from(i64) (`.try_into()?` on the read path): fails below zero.
U64TryFrom(i) == IF i >= 0 THEN Some(i) ELSE None


\* ------------------------------------------------------------------ schema
\* The database a migrated pool holds: one set of rows per relation.
\* `schema` tells whether the migrations have created the relations.
EmptyDb ==
  [ schema |-> TRUE, network |-> {}, keychain |-> {}, block |-> {}, tx |-> {}, txout |-> {},
    anchor |-> {}, keychain_last_revealed |-> {}, keychain_script_pubkey |-> {} ]

\* The uniqueness constraint of each relation (its key), as the migrations
\* declare it.
NetworkKey(r)      == <<r.network>>
KeychainKey(r)     == <<r.keychain>>
TxKey(r)           == <<r.txid>>
TxoutKey(r)        == <<r.txid, r.vout>>
AnchorKey(r)       == <<r.block_height, r.block_hash, r.txid>>
LastRevealedKey(r) == <<r.descriptor_id>>
ScriptPubkeyKey(r) == <<r.descriptor_id, r.derivation_index>>
\* No unique constraint on `height` alone (the FIXME of write_local_chain).
BlockKey(r)        == <<r.height, r.hash>>

\* The outcome of one statement: the database after it and Ok or the error.
Done(db, res) == [db |-> db, res |-> res]

\* ------------------------------------------------------------ SQL statements
\* "insert into network(network) values($1)": a plain insert; a row with the
\* same key is a constraint failure.
InsertNetwork(db, network) ==
  LET row == [network |-> network] IN
  IF \E r \in db.network : NetworkKey(r) = NetworkKey(row)
  THEN Done(db, "Sqlx")
  ELSE Done([db EXCEPT !.network = @ \cup {row}], "Ok")

\* "insert into keychain(keychain, descriptor) values($1, $2)".
InsertKeychain(db, keychain, descriptor) ==
  LET row == [keychain |-> keychain, descriptor |-> descriptor] IN
  IF \E r \in db.keychain : KeychainKey(r) = KeychainKey(row)
  THEN Done(db, "Sqlx")
  ELSE Done([db EXCEPT !.keychain = @ \cup {row}], "Ok")

\* The same insert without its ON CONFLICT clause: a second row of a txid is
\* a constraint failure.
PlainInsertTx(db, txid, col, val) ==
  LET fresh == [txid |-> txid, tx |-> None, first_seen |-> None,
                last_seen |-> None, last_evicted |-> None]
      row   == [fresh EXCEPT ![col] = Some(val)]
  IN IF \E r \in db.tx : TxKey(r) = TxKey(row)
     THEN Done(db, "Sqlx")
     ELSE Done([db EXCEPT !.tx = @ \cup {row}], "Ok")

\* The upsert of a timestamp that keeps the larger of the stored and the
\* written value.
KeepMaxTx(db, txid, col, val) ==
  LET fresh == [txid |-> txid, tx |-> None, first_seen |-> None,
                last_seen |-> None, last_evicted |-> None]
      row   == [fresh EXCEPT ![col] = Some(val)]
      old   == {r \in db.tx : TxKey(r) = TxKey(row)}
      keep(r) == col # "tx" /\ IsSome(r[col]) /\ Unwrap(r[col]) > val
  IN IF old = {}
     THEN Done([db EXCEPT !.tx = @ \cup {row}], "Ok")
     ELSE Done([db EXCEPT !.tx = (@ \ old) \cup
                  {IF keep(r) THEN r ELSE [r EXCEPT ![col] = Some(val)] : r \in old}], "Ok")

\* "INSERT OR REPLACE INTO tx(txid, <col>)": a row of the txid is replaced by
\* one that holds the written column only.
ReplaceTx(db, txid, col, val) ==
  LET fresh == [txid |-> txid, tx |-> None, first_seen |-> None,
                last_seen |-> None, last_evicted |-> None]
      row   == [fresh EXCEPT ![col] = Some(val)]
  IN Done([db EXCEPT !.tx = {r \in @ : TxKey(r) # TxKey(row)} \cup {row}], "Ok")

\* "INSERT INTO tx(txid, <col>) VALUES($1, $2) ON CONFLICT DO UPDATE SET
\* <col> = $2", <col> one of tx, first_seen, last_seen, last_evicted: a new
\* row holds NULL in the columns the statement does not name.
UpsertTx(db, txid, col, val) ==
  LET fresh == [txid |-> txid, tx |-> None, first_seen |-> None,
                last_seen |-> None, last_evicted |-> None]
      row   == [fresh EXCEPT ![col] = Some(val)]
      old   == {r \in db.tx : TxKey(r) = TxKey(row)}
  IN IF old = {}
     THEN Done([db EXCEPT !.tx = @ \cup {row}], "Ok")
     ELSE Done([db EXCEPT !.tx = (@ \ old) \cup {[r EXCEPT ![col] = Some(val)] : r \in old}],
               "Ok")

\* The txout upsert under a foreign key on txid: it fails when no row of tx
\* holds the txid.
UpsertTxoutReferenced(db, txid, vout, value, script) ==
  LET row == [txid |-> txid, vout |-> vout, value |-> value, script |-> script] IN
  IF \A r \in db.tx : r.txid # txid
  THEN Done(db, "Sqlx")
  ELSE Done([db EXCEPT !.txout = {r \in @ : TxoutKey(r) # TxoutKey(row)} \cup {row}], "Ok")

\* "INSERT INTO txout(txid, vout, value, script) VALUES($1, $2, $3, $4)
\* ON CONFLICT DO UPDATE SET value = $3, script = $4".
UpsertTxout(db, txid, vout, value, script) ==
  LET row == [txid |-> txid, vout |-> vout, value |-> value, script |-> script]
      old == {r \in db.txout : TxoutKey(r) = TxoutKey(row)}
  IN IF old = {}
     THEN Done([db EXCEPT !.txout = @ \cup {row}], "Ok")
     ELSE Done([db EXCEPT !.txout = (@ \ old) \cup
                  {[r EXCEPT !.value = value, !.script = script] : r \in old}], "Ok")

\* The anchor insert as an upsert: a row of the same key takes the new
\* confirmation time.
UpsertAnchor(db, height, hash, txid, confirmation_time) ==
  LET row == [block_height |-> height, block_hash |-> hash, txid |-> txid,
              confirmation_time |-> confirmation_time] IN
  Done([db EXCEPT !.anchor = {r \in @ : AnchorKey(r) # AnchorKey(row)} \cup {row}], "Ok")

\* "INSERT OR IGNORE INTO anchor(block_height, block_hash, txid,
\* confirmation_time) VALUES($1, $2, $3, $4)".
InsertOrIgnoreAnchor(db, height, hash, txid, confirmation_time) ==
  LET row == [block_height |-> height, block_hash |-> hash, txid |-> txid,
              confirmation_time |-> confirmation_time] IN
  IF \E r \in db.anchor : AnchorKey(r) = AnchorKey(row)
  THEN Done(db, "Ok")
  ELSE Done([db EXCEPT !.anchor = @ \cup {row}], "Ok")

\* "SELECT height FROM block WHERE height = $1" (fetch_optional).
SelectBlockHeight(db, height) == {r \in db.block : r.height = height}

\* "INSERT OR IGNORE INTO block(height, hash) VALUES($1, $2)".
InsertOrIgnoreBlock(db, height, hash) ==
  LET row == [height |-> height, hash |-> hash] IN
  IF \E r \in db.block : BlockKey(r) = BlockKey(row)
  THEN Done(db, "Ok")
  ELSE Done([db EXCEPT !.block = @ \cup {row}], "Ok")

\* A retraction that nulls the hash of the height's rows and keeps them.
NullBlockHash(db, height) ==
  Done([db EXCEPT !.block = {IF r.height = height THEN [r EXCEPT !.hash = None] ELSE r :
                              r \in @}], "Ok")

\* A retraction that deletes the height and every height above it.
DeleteBlocksFrom(db, height) ==
  Done([db EXCEPT !.block = {r \in @ : r.height < height}], "Ok")

\* "DELETE FROM block WHERE height = $1".
DeleteBlock(db, height) ==
  Done([db EXCEPT !.block = {r \in @ : r.height # height}], "Ok")

\* The same insert with no conflict to resolve: the new row joins the old.
AppendLastRevealed(db, descriptor_id, last_revealed) ==
  LET row == [descriptor_id |-> descriptor_id, last_revealed |-> last_revealed]
  IN Done([db EXCEPT !.keychain_last_revealed = @ \cup {row}], "Ok")

\* "INSERT INTO keychain_last_revealed(descriptor_id, last_revealed)
\* VALUES($1, $2) ON CONFLICT DO UPDATE SET last_revealed = $2".
UpsertLastRevealed(db, descriptor_id, last_revealed) ==
  LET row == [descriptor_id |-> descriptor_id, last_revealed |-> last_revealed]
      old == {r \in db.keychain_last_revealed : LastRevealedKey(r) = LastRevealedKey(row)}
  IN Done([db EXCEPT !.keychain_last_revealed = (@ \ old) \cup {row}], "Ok")

\* "INSERT OR IGNORE INTO keychain_script_pubkey(descriptor_id,
\* derivation_index, script) VALUES($1, $2, $3)".
InsertOrIgnoreScriptPubkey(db, descriptor_id, derivation_index, script) ==
  LET row == [descriptor_id |-> descriptor_id, derivation_index |-> derivation_index,
              script |-> script] IN
  IF \E r \in db.keychain_script_pubkey : ScriptPubkeyKey(r) = ScriptPubkeyKey(row)
  THEN Done(db, "Ok")
  ELSE Done([db EXCEPT !.keychain_script_pubkey = @ \cup {row}], "Ok")


\* ------------------------------------------------------- iteration order
\* BTreeMap and BTreeSet iterate in key order; keys are tuples of integers.
LexLess(a, b) ==
  \E i \in 1..Len(a) : a[i] < b[i] /\ \A j \in 1..(i - 1) : a[j] = b[j]

\* The items of P, a set of <<key, item>> pairs, in the order of their keys.
RECURSIVE InKeyOrder(_)
InKeyOrder(P) ==
  IF P = {} THEN <<>>
  ELSE LET first == CHOOSE p \in P : \A q \in P \ {p} : LexLess(p[1], q[1])
       IN <<first[2]>> \o InKeyOrder(P \ {first})

\* --------------------------------------------------------------- statements
\* One bound statement of a write loop.  `FromInt` stands for a statement
\* whose `i64::try_from(..)?` failed while binding: the method returns
\* there and the statement is never executed.
FromInt == [stmt |-> "FromInt"]

Execute(db, s) ==
  CASE s.stmt = "upsert_tx"      -> UpsertTx(db, s.txid, s.col, s.val)
    [] s.stmt = "upsert_txout"   -> UpsertTxout(db, s.txid, s.vout, s.value, s.script)
    [] s.stmt = "insert_anchor"  -> InsertOrIgnoreAnchor(db, s.height, s.hash, s.txid,
                                                         s.confirmation_time)
    [] s.stmt = "put_block"      ->
         \* the existence check, then the insert when no row was found
         IF SelectBlockHeight(db, s.height) = {}
         THEN InsertOrIgnoreBlock(db, s.height, s.hash)
         ELSE Done(db, "Ok")
    [] s.stmt = "delete_block"   -> DeleteBlock(db, s.height)
    [] s.stmt = "upsert_last_revealed" ->
         UpsertLastRevealed(db, s.descriptor_id, s.last_revealed)
    [] s.stmt = "insert_spk"     ->
         InsertOrIgnoreScriptPubkey(db, s.descriptor_id, s.derivation_index, s.script)

\* The statements of a method in turn, `.await?` after each: the first
\* failure returns its error and leaves the later statements unissued.  On a
\* database without the relations every statement fails.
RECURSIVE RunAll(_, _)
RunAll(db, stmts) ==
  IF stmts = <<>> THEN Done(db, "Ok")
  ELSE LET s == Head(stmts) IN
       IF s.stmt = "FromInt" THEN Done(db, "FromInt")
       ELSE IF ~db.schema THEN Done(db, "Sqlx")
       ELSE LET r == Execute(db, s) IN
            IF r.res # "Ok" THEN r ELSE RunAll(r.db, Tail(stmts))

\* ------------------------------------------------------------ Store writes
\* A timestamp statement: the txid text and i64::try_from(*t)?.
TimeStmt(col, txid, t) ==
  IF IsSome(I64TryFrom(t))
  THEN [stmt |-> "upsert_tx", txid |-> TxidToString(txid), col |-> col,
        val |-> Unwrap(I64TryFrom(t))]
  ELSE FromInt

TimeStmts(col, m) == InKeyOrder({<<(<<txid>>), TimeStmt(col, txid, m[txid])>> : txid \in DOMAIN m})

TxStmts(txs) ==
  InKeyOrder({<<(<<tx>>), [stmt |-> "upsert_tx", txid |-> TxidToString(tx), col |-> "tx",
                           val |-> Serialize(tx)]>> : tx \in txs})

TxoutStmt(op, txout) ==
  IF IsSome(I64TryFrom(txout.value))
  THEN [stmt |-> "upsert_txout", txid |-> TxidToString(op[1]), vout |-> op[2],
        value |-> Unwrap(I64TryFrom(txout.value)), script |-> txout.script_pubkey]
  ELSE FromInt

TxoutStmts(txouts) == InKeyOrder({<<op, TxoutStmt(op, txouts[op])>> : op \in DOMAIN txouts})

AnchorStmt(a) ==
  IF IsSome(I64TryFrom(a.confirmation_time))
  THEN [stmt |-> "insert_anchor", height |-> a.height, hash |-> HashToString(a.hash),
        txid |-> TxidToString(a.txid),
        confirmation_time |-> Unwrap(I64TryFrom(a.confirmation_time))]
  ELSE FromInt

\* (ConfirmationBlockTime, Txid) orders by block id, confirmation time, txid.
AnchorStmts(anchors) ==
  InKeyOrder({<<(<<a.height, a.hash, a.confirmation_time, a.txid>>), AnchorStmt(a)>> :
              a \in anchors})

\* Store::write_tx_graph
write_tx_graph(db, tx_graph) ==
  RunAll(db, TxStmts(tx_graph.txs)
             \o TimeStmts("first_seen", tx_graph.first_seen)
             \o TimeStmts("last_seen", tx_graph.last_seen)
             \o TimeStmts("last_evicted", tx_graph.last_evicted)
             \o TxoutStmts(tx_graph.txouts)
             \o AnchorStmts(tx_graph.anchors))

BlockStmt(height, hash) ==
  IF IsSome(hash)
  THEN [stmt |-> "put_block", height |-> height, hash |-> HashToString(Unwrap(hash))]
  ELSE [stmt |-> "delete_block", height |-> height]

\* Store::write_local_chain
write_local_chain(db, local_chain) ==
  RunAll(db, InKeyOrder({<<(<<h>>), BlockStmt(h, local_chain.blocks[h])>> :
                         h \in DOMAIN local_chain.blocks}))

LastRevealedStmts(m) ==
  InKeyOrder({<<(<<d>>), [stmt |-> "upsert_last_revealed",
                          descriptor_id |-> DescriptorIdToString(d),
                          last_revealed |-> m[d]]>> : d \in DOMAIN m})

SpkStmts(spk_cache) ==
  InKeyOrder(UNION {{<<(<<d, i>>), [stmt |-> "insert_spk",
                                   descriptor_id |-> DescriptorIdToString(d),
                                   derivation_index |-> i, script |-> spk_cache[d][i]]>> :
                     i \in DOMAIN spk_cache[d]} : d \in DOMAIN spk_cache})

\* Store::write_keychain_txout
write_keychain_txout(db, keychain_txout) ==
  RunAll(db, LastRevealedStmts(keychain_txout.last_revealed)
             \o SpkStmts(keychain_txout.spk_cache))


\* ------------------------------------------------------------- Store reads
\* A read yields the set of results it can produce: `fetch_all` gives the
\* rows in no stated order, so when several rows fail any of them can be the
\* first; and a NULL column fetched by `row.get` into a type that is not an
\* Option either aborts (a decode error inside `get`) or yields the driver's
\* default, 0 or the empty blob.
NullDecode == {"default", "panic"}

Failed(res) == [res |-> res, value |-> None]
Read(value) == [res |-> "Ok", value |-> Some(value)]

\* `let x: i64 = row.get(col)` where the column is not NULL or NULL reads 0.
GetI64(col) == IF IsSome(col) THEN Unwrap(col) ELSE 0
\* `let data: Vec<u8> = row.get("tx")`.
GetBlob(col) == IF IsSome(col) THEN Unwrap(col) ELSE <<>>

\* One row of `tx` (lines 208-221).
TxRow(r, nullAs) ==
  IF ~IsSome(ParseTxid(r.txid)) THEN "HexToArray"
  ELSE IF ~IsSome(r.tx) /\ nullAs = "panic" THEN "panic"
  ELSE IF ~IsSome(Deserialize(GetBlob(r.tx))) THEN "Decode"
  ELSE IF nullAs = "panic" /\ ~(IsSome(r.first_seen) /\ IsSome(r.last_seen)
                                /\ IsSome(r.last_evicted)) THEN "panic"
  ELSE IF \E c \in {r.first_seen, r.last_seen, r.last_evicted} :
            ~IsSome(U64TryFrom(GetI64(c))) THEN "FromInt"
  ELSE "Ok"

\* One row of `txout` (lines 228-240).
TxoutRow(r) ==
  IF ~IsSome(ParseTxid(r.txid)) THEN "HexToArray"
  ELSE IF ~IsSome(U64TryFrom(r.value)) THEN "FromInt"
  ELSE "Ok"

\* One row of `anchor` (lines 248-258).
AnchorRow(r) ==
  IF ~IsSome(ParseHash(r.block_hash)) \/ ~IsSome(ParseTxid(r.txid)) THEN "HexToArray"
  ELSE IF ~IsSome(U64TryFrom(r.confirmation_time)) THEN "FromInt"
  ELSE "Ok"

TxGraphErrors(db, nullAs) ==
  LET txErr == {TxRow(r, nullAs) : r \in db.tx} \ {"Ok"} IN
  IF txErr # {} THEN txErr
  ELSE LET outErr == {TxoutRow(r) : r \in db.txout} \ {"Ok"} IN
       IF outErr # {} THEN outErr
       ELSE {AnchorRow(r) : r \in db.anchor} \ {"Ok"}

\* The change set read_tx_graph assembles when every row decodes: each row of
\* `tx` gives its transaction and an entry in each of the three maps.
TxGraphValue(db) ==
  LET id(r) == Unwrap(ParseTxid(r.txid))
      ids == {id(r) : r \in db.tx}
      byId(t) == CHOOSE r \in db.tx : id(r) = t
  IN [ txs |-> {Unwrap(Deserialize(GetBlob(r.tx))) : r \in db.tx},
       first_seen   |-> [t \in ids |-> Unwrap(U64TryFrom(GetI64(byId(t).first_seen)))],
       last_seen    |-> [t \in ids |-> Unwrap(U64TryFrom(GetI64(byId(t).last_seen)))],
       last_evicted |-> [t \in ids |-> Unwrap(U64TryFrom(GetI64(byId(t).last_evicted)))],
       txouts |-> [op \in {<<id(r), r.vout>> : r \in db.txout} |->
                    LET r == CHOOSE q \in db.txout : <<id(q), q.vout>> = op
                    IN [value |-> Unwrap(U64TryFrom(r.value)), script_pubkey |-> r.script]],
       anchors |-> {[height |-> r.block_height, hash |-> Unwrap(ParseHash(r.block_hash)),
                     confirmation_time |-> Unwrap(U64TryFrom(r.confirmation_time)),
                     txid |-> id(r)] : r \in db.anchor} ]

\* Store::read_tx_graph
read_tx_graph(db, nullAs) ==
  IF ~db.schema THEN {Failed("Sqlx")}
  ELSE IF TxGraphErrors(db, nullAs) # {}
  THEN {Failed(e) : e \in TxGraphErrors(db, nullAs)}
  ELSE {Read(TxGraphValue(db))}

\* Store::read_local_chain: every row becomes height -> Some(hash); a later
\* row of the same height replaces an earlier one in the map.
read_local_chain(db) ==
  IF ~db.schema THEN {Failed("Sqlx")}
  ELSE IF \E r \in db.block : ~IsSome(ParseHash(r.hash)) THEN {Failed("HexToArray")}
  ELSE {Read([blocks |-> [h \in {r.height : r \in db.block} |-> Some(Unwrap(ParseHash(last[h].hash)))]]) :
          last \in {f \in [{r.height : r \in db.block} -> db.block] :
                      \A h \in DOMAIN f : f[h].height = h}}


\* Store::read_keychain_txout
read_keychain_txout(db) ==
  IF ~db.schema THEN {Failed("Sqlx")}
  ELSE IF \E r \in db.keychain_last_revealed \cup db.keychain_script_pubkey :
            ~IsSome(ParseDescriptorId(r.descriptor_id))
  THEN {Failed("HexToArray")}
  ELSE LET id(r) == Unwrap(ParseDescriptorId(r.descriptor_id))
           lr  == db.keychain_last_revealed
           spk == db.keychain_script_pubkey
       IN {Read([ last_revealed |->
                    [d \in {id(r) : r \in lr} |->
                       (CHOOSE r \in lr : id(r) = d).last_revealed],
                  spk_cache |->
                    [d \in {id(r) : r \in spk} |->
                       [i \in {r.derivation_index : r \in {q \in spk : id(q) = d}} |->
                          (CHOOSE r \in spk : id(r) = d /\ r.derivation_index = i).script]] ])}

\* -------------------------------------------------------- wallet.rs writes
\* KeychainKind::External => 0u8, KeychainKind::Internal => 1
External == 0
Internal == 1

\* Store::write_network: the insert's result is unwrapped.
write_network(db, network) ==
  IF ~db.schema THEN Done(db, "panic")
  ELSE LET r == InsertNetwork(db, NetworkToString(network)) IN
       IF r.res = "Ok" THEN r ELSE Done(r.db, "panic")

\* Store::write_keychain_descriptors: External before Internal (the order of
\* the BTreeMap), each insert unwrapped.
RECURSIVE InsertDescriptors(_, _)
InsertDescriptors(db, entries) ==
  IF entries = <<>> THEN Done(db, "Ok")
  ELSE IF ~db.schema THEN Done(db, "panic")
  ELSE LET e == Head(entries)
           r == InsertKeychain(db, e[1], DescriptorToString(e[2]))
       IN IF r.res = "Ok" THEN InsertDescriptors(r.db, Tail(entries))
          ELSE Done(r.db, "panic")

write_keychain_descriptors(db, descriptors) ==
  InsertDescriptors(db, InKeyOrder({<<(<<k>>), <<k, descriptors[k]>>>> : k \in DOMAIN descriptors}))

\* The map write_changeset builds from the two optional descriptors.
DescriptorMap(changeset) ==
  LET keys == (IF IsSome(changeset.descriptor) THEN {External} ELSE {})
              \cup (IF IsSome(changeset.change_descriptor) THEN {Internal} ELSE {})
  IN [k \in keys |-> IF k = External THEN Unwrap(changeset.descriptor)
                     ELSE Unwrap(changeset.change_descriptor)]

\* Store::write_changeset: returns nothing.  The three Store writes return a
\* Result that is dropped (`.await;`), so after a failed one the next still
\* runs; an abort in write_network or write_keychain_descriptors ends it.
\* `dropped` lists the Results the call computed and discarded.
write_changeset(db, changeset) ==
  LET n == IF IsSome(changeset.network)
           THEN write_network(db, Unwrap(changeset.network)) ELSE Done(db, "Ok")
      d == write_keychain_descriptors(n.db, DescriptorMap(changeset))
      c == write_local_chain(d.db, changeset.local_chain)
      g == write_tx_graph(c.db, changeset.tx_graph)
      i == write_keychain_txout(g.db, changeset.indexer)
  IN IF n.res = "panic" THEN [db |-> n.db, res |-> "panic", dropped |-> <<>>]
     ELSE IF d.res = "panic" THEN [db |-> d.db, res |-> "panic", dropped |-> <<>>]
     ELSE [db |-> i.db, res |-> "Ok", dropped |-> <<c.res, g.res, i.res>>]

\* --------------------------------------------------------- wallet.rs reads
\* Store::read_network: the first row the query yields, if any; every
\* failure is unwrapped.
read_network(db) ==
  IF ~db.schema THEN {Failed("panic")}
  ELSE IF db.network = {} THEN {Read(None)}
  ELSE {IF IsSome(ParseNetwork(r.network)) THEN Read(ParseNetwork(r.network))
        ELSE Failed("panic") : r \in db.network}

\* Store::read_keychain_descriptors: a role code other than 0 and 1 and a
\* descriptor that does not parse abort; rows of one role overwrite each
\* other in the map.
read_keychain_descriptors(db) ==
  IF ~db.schema THEN {Failed("panic")}
  ELSE IF \E r \in db.keychain : r.keychain \notin {External, Internal}
                                  \/ ~IsSome(DescriptorFromStr(r.descriptor))
  THEN {Failed("panic")}
  ELSE {Read([k \in DOMAIN last |-> Unwrap(DescriptorFromStr(last[k].descriptor))]) :
          last \in {f \in [{r.keychain : r \in db.keychain} -> db.keychain] :
                      \A k \in DOMAIN f : f[k].keychain = k}}

\* Store::read_changeset.  Its return type has no place for the Err of the
\* three Store reads; like every other failure in wallet.rs it ends the call
\* without a value.
read_changeset(db, nullAs) ==
  {IF n.res # "Ok" \/ d.res # "Ok" \/ g.res # "Ok" \/ c.res # "Ok" \/ i.res # "Ok"
   THEN Failed("panic")
   ELSE Read([ network |-> Unwrap(n.value),
               descriptor |-> IF External \in DOMAIN Unwrap(d.value)
                              THEN Some(Unwrap(d.value)[External]) ELSE None,
               change_descriptor |-> IF Internal \in DOMAIN Unwrap(d.value)
                                     THEN Some(Unwrap(d.value)[Internal]) ELSE None,
               tx_graph |-> Unwrap(g.value),
               local_chain |-> Unwrap(c.value),
               indexer |-> Unwrap(i.value) ]) :
   n \in read_network(db), d \in read_keychain_descriptors(db),
   g \in read_tx_graph(db, nullAs), c \in read_local_chain(db),
   i \in read_keychain_txout(db)}

\* ------------------------------------------------------------------- state
VARIABLES
  pool,      \* Store.pool: the database behind the handle
  before,    \* the database as the last call found it
  op,        \* the method that ran last
  arg,       \* its argument
  result,    \* what it returned: "Ok", an Error variant, or "panic"
  returned,  \* the value of a read that returned Ok, else None
  dropped,   \* the Results the call computed and discarded
  calls      \* the write calls in flight on clones of the handle, by task

vars == <<pool, before, op, arg, result, returned, dropped, calls>>

\* The tasks that hold a clone of the Store and call it concurrently.
Tasks == {1, 2}

\* A task's call: the delta it was given, the statements it has still to
\* issue, one sequence per Store write method, and the outcome of the
\* existence check of the block statement in hand.
Idle == [status |-> "idle", delta |-> None, segs |-> <<>>, sel |-> None]
NoCalls == [t \in Tasks |-> Idle]

\* A new database file, before any migration.
Init ==
  /\ pool = [EmptyDb EXCEPT !.schema = FALSE] /\ before = pool
  /\ op = "new" /\ arg = None /\ result = "Ok" /\ returned = None /\ dropped = <<>>
  /\ calls = NoCalls

\* A store that started empty and migrated.
InitMigrated ==
  /\ pool = EmptyDb /\ before = pool
  /\ op = "migrate" /\ arg = None /\ result = "Ok" /\ returned = None /\ dropped = <<>>
  /\ calls = NoCalls

\* sqlx::migrate!().run(&pool): creates the relations, or fails (a changed or
\* missing migration, a locked or dirty database) and leaves the database as
\* it was.
MigrateOutcomes(db) == {Done([db EXCEPT !.schema = TRUE], "Ok"), Done(db, "Migrate")}

\* Store::migrate
Migrate ==
  \E m \in MigrateOutcomes(pool) :
    /\ pool' = m.db /\ before' = pool
    /\ op' = "migrate" /\ arg' = None /\ result' = m.res
    /\ returned' = None /\ dropped' = <<>>
    /\ UNCHANGED calls

Write(name, input, r) ==
  /\ pool' = r.db /\ before' = pool
  /\ op' = name /\ arg' = input /\ result' = r.res
  /\ returned' = None /\ dropped' = <<>>
  /\ UNCHANGED calls

Reading(name, outcomes) ==
  \E r \in outcomes :
    /\ op' = name /\ arg' = None /\ result' = r.res /\ returned' = r.value
    /\ dropped' = <<>>
    /\ before' = pool /\ UNCHANGED <<pool, calls>>

WriteTxGraph(g)       == Write("write_tx_graph", g, write_tx_graph(pool, g))
WriteLocalChain(c)    == Write("write_local_chain", c, write_local_chain(pool, c))
WriteKeychainTxout(k) == Write("write_keychain_txout", k, write_keychain_txout(pool, k))
ReadTxGraph       == \E nullAs \in NullDecode : Reading("read_tx_graph", read_tx_graph(pool, nullAs))
ReadLocalChain    == Reading("read_local_chain", read_local_chain(pool))
ReadKeychainTxout == Reading("read_keychain_txout", read_keychain_txout(pool))

\* AsyncWalletPersister::persist: Ok(write_changeset(..).await).
Persist(changeset) ==
  LET r == write_changeset(pool, changeset) IN
    /\ pool' = r.db /\ before' = pool
    /\ op' = "persist" /\ arg' = changeset /\ result' = r.res
    /\ returned' = None /\ dropped' = r.dropped
    /\ UNCHANGED calls

\* AsyncWalletPersister::initialize: migrate().await; with the Result
\* dropped, then Ok(read_changeset().await).
Initialize ==
  \E m \in MigrateOutcomes(pool), nullAs \in NullDecode :
    \E r \in read_changeset(m.db, nullAs) :
      /\ pool' = m.db /\ before' = pool
      /\ op' = "initialize" /\ arg' = None /\ result' = r.res
      /\ returned' = r.value /\ dropped' = <<m.res>>
      /\ UNCHANGED calls

\* Store::new_pool / Store::new on a database that exists already: the handle
\* takes whatever rows the file holds.
InitExisting(dbs) ==
  /\ pool \in dbs /\ before = pool
  /\ op = "new_pool" /\ arg = None /\ result = "Ok" /\ returned = None /\ dropped = <<>>
  /\ calls = NoCalls

\* ================================================== the chain block relation
\* Every local-chain change set over the heights and hashes of the model.
LocalChains ==
  {[blocks |-> m] : m \in PartialFns(Heights, {None} \cup {Some(h) : h \in BlockHashes})}

NextChain ==
  \/ \E c \in LocalChains : WriteLocalChain(c)
  \/ ReadLocalChain

\* write_local_chain and read_local_chain on a migrated store.
SpecChain == InitMigrated /\ [][NextChain]_vars

RowsAt(db, h) == SelectBlockHeight(db, h)

\* C2: writing a known hash for a height that already holds a different
\* known hash overwrites it: after write_local_chain({H: hashB}) on a store
\* holding H -> hashA there is exactly one row for H, it holds hashB, and the
\* snapshot maps H to hashB.
C2_ChainBlockUpsert ==
  \A h \in Heights, a \in BlockHashes, b \in BlockHashes :
    ( /\ op = "write_local_chain" /\ result = "Ok"
      /\ h \in DOMAIN arg.blocks /\ arg.blocks[h] = Some(b) /\ a # b
      /\ [height |-> h, hash |-> HashToString(a)] \in before.block )
    => /\ RowsAt(pool, h) = {[height |-> h, hash |-> HashToString(b)]}
       /\ \A r \in read_local_chain(pool) :
            r.res = "Ok" /\ Unwrap(r.value).blocks[h] = Some(b)

\* C3: a local-chain write that maps a height to unknown leaves no row for
\* that height, and no entry for it in the snapshot; a height without a row
\* gets one only by a write that gives it a known hash; every row of the
\* relation carries a known hash, the snapshot holds exactly the heights that
\* have a row, and it maps none of them to unknown.
C3_ReorgRetraction ==
  /\ (op = "write_local_chain" /\ result = "Ok") =>
       \A h \in DOMAIN arg.blocks :
         arg.blocks[h] = None =>
           /\ RowsAt(pool, h) = {}
           /\ \A r \in read_local_chain(pool) :
                r.res = "Ok" /\ h \notin DOMAIN Unwrap(r.value).blocks
  /\ \A h \in Heights :
       (RowsAt(before, h) = {} /\ RowsAt(pool, h) # {}) =>
         /\ op = "write_local_chain" /\ h \in DOMAIN arg.blocks
         /\ IsSome(arg.blocks[h])
  /\ \A row \in pool.block : IsSome(ParseHash(row.hash))
  /\ \A r \in read_local_chain(pool) :
       /\ r.res = "Ok"
       /\ DOMAIN Unwrap(r.value).blocks = {row.height : row \in pool.block}
       /\ \A h \in DOMAIN Unwrap(r.value).blocks : IsSome(Unwrap(r.value).blocks[h])

\* A height that held a known hash was written as unknown and is gone.
C3_Witness ==
  /\ op = "write_local_chain" /\ result = "Ok"
  /\ \E h \in DOMAIN arg.blocks :
       arg.blocks[h] = None /\ RowsAt(before, h) # {} /\ RowsAt(pool, h) = {}

\* ==================================================== the tx relation
EmptyTxGraph ==
  [ txs |-> {}, txouts |-> EmptyMap, anchors |-> {}, first_seen |-> EmptyMap,
    last_seen |-> EmptyMap, last_evicted |-> EmptyMap ]
EmptyLocalChain == [blocks |-> EmptyMap]
EmptyIndexer == [last_revealed |-> EmptyMap, spk_cache |-> EmptyMap]

\* Every tx-graph change set made of transactions and timestamps.
TxInputs ==
  {[EmptyTxGraph EXCEPT !.txs = txs, !.first_seen = fs, !.last_seen = ls, !.last_evicted = le] :
     txs \in SUBSET Txids, fs \in PartialFns(Txids, U64Values),
     ls \in PartialFns(Txids, U64Values), le \in PartialFns(Txids, U64Values)}

NextTx ==
  \/ \E g \in TxInputs : WriteTxGraph(g)
  \/ ReadTxGraph

\* write_tx_graph and read_tx_graph of transactions and their timestamps on
\* a migrated store.
SpecTx == InitMigrated /\ [][NextTx]_vars

\* C4: a transaction may have any subset of its three timestamps written;
\* the snapshot then succeeds and reports for it exactly the timestamps that
\* were written: after {tx: [T1], first_seen: {T1: t}} on an empty store the
\* snapshot holds T1 with first_seen = t and no last_seen or last_evicted.
C4_AbsentTimestamps ==
  ( /\ op = "write_tx_graph" /\ result = "Ok" /\ before = EmptyDb
    /\ arg.txs # {}
    /\ DOMAIN arg.first_seen \cup DOMAIN arg.last_seen \cup DOMAIN arg.last_evicted
         \subseteq arg.txs )
  => \A nullAs \in NullDecode : \A r \in read_tx_graph(pool, nullAs) :
       /\ r.res = "Ok"
       /\ Unwrap(r.value).txs = arg.txs
       /\ Unwrap(r.value).first_seen = arg.first_seen
       /\ Unwrap(r.value).last_seen = arg.last_seen
       /\ Unwrap(r.value).last_evicted = arg.last_evicted

\* ======================================================= the wallet persister
EmptyChangeSet ==
  [ network |-> None, descriptor |-> None, change_descriptor |-> None,
    local_chain |-> EmptyLocalChain, tx_graph |-> EmptyTxGraph, indexer |-> EmptyIndexer ]

\* The tx-graph parts of the change sets the wallet persists here: a
\* timestamp beyond i64::MAX, a timestamp of a transaction not yet stored,
\* and a transaction with every field.
SeenTooLate == [EmptyTxGraph EXCEPT !.first_seen = [t \in {1} |-> MaxU64]]
SeenUnknown == [EmptyTxGraph EXCEPT !.first_seen = [t \in {1} |-> 1]]
Complete ==
  [ txs |-> {1},
    txouts |-> [o \in {<<1, 0>>} |-> [value |-> 1, script_pubkey |-> "s1"]],
    anchors |-> {[height |-> 1, hash |-> 1, confirmation_time |-> 1, txid |-> 1]},
    first_seen |-> [t \in {1} |-> 1], last_seen |-> [t \in {1} |-> 2],
    last_evicted |-> [t \in {1} |-> 1] ]

\* How many of the six parts of a change set are not empty.
Parts(cs) ==
  Cardinality({1 : x \in {cs.network} \ {None}} \cup {2 : x \in {cs.descriptor} \ {None}}
              \cup {3 : x \in {cs.change_descriptor} \ {None}}
              \cup {4 : x \in {cs.local_chain} \ {EmptyLocalChain}}
              \cup {5 : x \in {cs.tx_graph} \ {EmptyTxGraph}}
              \cup {6 : x \in {cs.indexer} \ {EmptyIndexer}})

\* At most this many parts of a persisted change set are non-empty.
MaxParts == 2

ChangeSets ==
  {cs \in [ network : {None} \cup {Some(n) : n \in Networks},
            descriptor : {None} \cup {Some(d) : d \in Descriptors},
            change_descriptor : {None, Some("wpkh(B)")},
            local_chain : {EmptyLocalChain, [blocks |-> [h \in {1} |-> Some(1)]]},
            tx_graph : {EmptyTxGraph, SeenTooLate, SeenUnknown, Complete},
            indexer : {EmptyIndexer,
                       [last_revealed |-> [d \in {1} |-> 0],
                        spk_cache |-> [d \in {1} |-> [i \in {0} |-> "s1"]]]} ] :
     Parts(cs) <= MaxParts}

Next ==
  \/ Migrate
  \/ Initialize
  \/ \E cs \in ChangeSets : Persist(cs)

\* The persister on a new database: migrate, initialize, persist.
Spec == Init /\ [][Next]_vars

\* Whether the snapshot `snap` contains every entity of the change set `cs`.
Contains(snap, cs) ==
  /\ IsSome(cs.network) => snap.network = cs.network
  /\ IsSome(cs.descriptor) => snap.descriptor = cs.descriptor
  /\ IsSome(cs.change_descriptor) => snap.change_descriptor = cs.change_descriptor
  /\ \A h \in DOMAIN cs.local_chain.blocks :
       IsSome(cs.local_chain.blocks[h]) =>
         /\ h \in DOMAIN snap.local_chain.blocks
         /\ snap.local_chain.blocks[h] = cs.local_chain.blocks[h]
  /\ cs.tx_graph.txs \subseteq snap.tx_graph.txs
  /\ cs.tx_graph.anchors \subseteq snap.tx_graph.anchors
  /\ \A o \in DOMAIN cs.tx_graph.txouts :
       o \in DOMAIN snap.tx_graph.txouts /\ snap.tx_graph.txouts[o] = cs.tx_graph.txouts[o]
  /\ \A t \in DOMAIN cs.tx_graph.first_seen :
       t \in DOMAIN snap.tx_graph.first_seen
       /\ snap.tx_graph.first_seen[t] = cs.tx_graph.first_seen[t]
  /\ \A t \in DOMAIN cs.tx_graph.last_seen :
       t \in DOMAIN snap.tx_graph.last_seen
       /\ snap.tx_graph.last_seen[t] = cs.tx_graph.last_seen[t]
  /\ \A t \in DOMAIN cs.tx_graph.last_evicted :
       t \in DOMAIN snap.tx_graph.last_evicted
       /\ snap.tx_graph.last_evicted[t] = cs.tx_graph.last_evicted[t]
  /\ \A d \in DOMAIN cs.indexer.last_revealed :
       d \in DOMAIN snap.indexer.last_revealed
       /\ snap.indexer.last_revealed[d] = cs.indexer.last_revealed[d]
  /\ \A d \in DOMAIN cs.indexer.spk_cache : \A i \in DOMAIN cs.indexer.spk_cache[d] :
       /\ d \in DOMAIN snap.indexer.spk_cache
       /\ i \in DOMAIN snap.indexer.spk_cache[d]
       /\ snap.indexer.spk_cache[d][i] = cs.indexer.spk_cache[d][i]

\* C1: round trip.  For every change set persisted on an empty migrated
\* store whose writes all succeeded, the following read succeeds and returns
\* a change set containing every entity of the one persisted.
C1_RoundTrip ==
  ( /\ op = "persist" /\ before = EmptyDb
    /\ result = "Ok" /\ dropped = <<"Ok", "Ok", "Ok">> )
  => \A nullAs \in NullDecode : \A r \in read_changeset(pool, nullAs) :
       r.res = "Ok" /\ Contains(Unwrap(r.value), arg)

\* C5: persist returns success only if every write it invoked succeeded.
C5_PersistReportsFailure ==
  (op = "persist" /\ result = "Ok") => \A i \in DOMAIN dropped : dropped[i] = "Ok"

\* C6: when the migration inside initialize fails, initialize returns the
\* migration failure and no snapshot.
C6_InitializeMigrationFailure ==
  (op = "initialize" /\ dropped = <<"Migrate">>) => (result = "Migrate" /\ returned = None)

\* The rows of `keychain` that hold the role k.
RoleRows(db, k) == {r \in db.keychain : r.keychain = k}

\* The descriptor a change set gives for the role k, if any.
Given(cs, k) == IF k = External THEN cs.descriptor ELSE cs.change_descriptor

\* C9: the store holds at most one descriptor per keychain role, and a
\* descriptor written for a role that already has one supersedes it: the
\* role's row and the snapshot then hold the later descriptor.
C9_DescriptorSupersede ==
  \A k \in {External, Internal} :
    /\ Cardinality(RoleRows(pool, k)) <= 1
    /\ (op = "persist" /\ IsSome(Given(arg, k)) /\ RoleRows(before, k) # {})
       => /\ RoleRows(pool, k) =
               {[keychain |-> k, descriptor |-> DescriptorToString(Unwrap(Given(arg, k)))]}
          /\ \A r \in read_keychain_descriptors(pool) :
               r.res = "Ok" /\ Unwrap(r.value)[k] = Unwrap(Given(arg, k))

\* A change set of a network and descriptors only, each equal to the value
\* the database already stores.
Redundant(cs, db) ==
  /\ db.schema
  /\ cs.local_chain = EmptyLocalChain /\ cs.tx_graph = EmptyTxGraph
  /\ cs.indexer = EmptyIndexer
  /\ IsSome(cs.network) \/ IsSome(cs.descriptor) \/ IsSome(cs.change_descriptor)
  /\ IsSome(cs.network) =>
       db.network = {[network |-> NetworkToString(Unwrap(cs.network))]}
  /\ \A k \in {External, Internal} :
       IsSome(Given(cs, k)) =>
         RoleRows(db, k) =
           {[keychain |-> k, descriptor |-> DescriptorToString(Unwrap(Given(cs, k)))]}

\* C10: persisting a change set whose network and descriptors equal the
\* stored ones completes without error or abort, leaves at most one network
\* value in the store, and leaves the snapshot unchanged.
C10_RedundantRewrite ==
  (op = "persist" /\ Redundant(arg, before))
  => /\ result = "Ok"
     /\ Cardinality(pool.network) <= 1
     /\ \A nullAs \in NullDecode :
          read_changeset(pool, nullAs) = read_changeset(before, nullAs)

\* ===================================================== the upsert relations
\* Deltas of the three upsert collections for transaction 1, output (1, 0)
\* and descriptor 1: one transaction, one timestamp, one output; the three
\* timestamps at once; a first-seen time followed by a last-seen time beyond
\* i64::MAX, which fails after the first-seen time is written.
One(v) == [t \in {1} |-> v]

UpsertGraphs ==
  {EmptyTxGraph, [EmptyTxGraph EXCEPT !.txs = {1}]}
  \cup {[EmptyTxGraph EXCEPT !.first_seen = One(v)] : v \in U64Values}
  \cup {[EmptyTxGraph EXCEPT !.last_seen = One(v)] : v \in U64Values}
  \cup {[EmptyTxGraph EXCEPT !.last_evicted = One(v)] : v \in U64Values}
  \cup {[EmptyTxGraph EXCEPT !.first_seen = One(v), !.last_seen = One(v),
                             !.last_evicted = One(v)] : v \in U64Values}
  \cup {[EmptyTxGraph EXCEPT !.first_seen = One(1), !.last_seen = One(MaxU64)]}
  \cup {[EmptyTxGraph EXCEPT !.txouts = [o \in {<<1, 0>>} |->
                                          [value |-> v, script_pubkey |-> s]]] :
          v \in U64Values, s \in Scripts}

UpsertIndexers ==
  {[EmptyIndexer EXCEPT !.last_revealed = m] : m \in PartialFns(DescriptorIds, Indices)}

NextUpsert ==
  \/ \E g \in UpsertGraphs : WriteTxGraph(g)
  \/ \E k \in UpsertIndexers : WriteKeychainTxout(k)
  \/ ReadTxGraph
  \/ ReadKeychainTxout

\* Writes and reads of the tx, txout and keychain_last_revealed relations on
\* a migrated store.
SpecUpsert == InitMigrated /\ [][NextUpsert]_vars

\* C7: applying a delta twice yields the same snapshot as applying it once,
\* for the transaction timestamps, the output records and the last-revealed
\* index: in the state a write of D has produced, writing D again returns the
\* same result, leaves the three relations as they are and leaves every
\* result of the reads as it is.
C7_UpsertIdempotent ==
  /\ op = "write_tx_graph" =>
       LET again == write_tx_graph(pool, arg) IN
         /\ again.res = result
         /\ again.db.tx = pool.tx /\ again.db.txout = pool.txout
         /\ \A nullAs \in NullDecode :
              read_tx_graph(again.db, nullAs) = read_tx_graph(pool, nullAs)
  /\ op = "write_keychain_txout" =>
       LET again == write_keychain_txout(pool, arg) IN
         /\ again.res = result
         /\ again.db.keychain_last_revealed = pool.keychain_last_revealed
         /\ read_keychain_txout(again.db) = read_keychain_txout(pool)

\* A delta with a timestamp was written to a store that already held what it
\* writes (a second application), and the store is as it was.
C7_Witness ==
  /\ op = "write_tx_graph" /\ result = "Ok"
  /\ DOMAIN arg.first_seen # {}
  /\ before.tx # {} /\ pool = before

\* The values the column col holds in the rows of transaction t.
Stored(db, t, col) == {r[col] : r \in {q \in db.tx : q.txid = TxidToString(t)}}

Timestamps == {"first_seen", "last_seen", "last_evicted"}

\* C11: last-write-wins timestamps.  A write that names a timestamp of a
\* transaction and succeeds leaves the written value in the column, whatever
\* the column held, also a larger value; a column changes only to the value
\* the write in hand names for it (or from no row to NULL, when the write
\* creates the row through another column); no other operation touches the
\* relation.  So the stored value is always that of the latest write.
C11_LastWriteWins ==
  /\ op = "write_tx_graph" =>
       \A t \in Txids, col \in Timestamps :
         /\ (result = "Ok" /\ t \in DOMAIN arg[col]) =>
              Stored(pool, t, col) = {Some(arg[col][t])}
         /\ Stored(pool, t, col) # Stored(before, t, col) =>
              \/ t \in DOMAIN arg[col] /\ Stored(pool, t, col) = {Some(arg[col][t])}
              \/ Stored(before, t, col) = {} /\ Stored(pool, t, col) = {None}
  /\ op # "write_tx_graph" => pool.tx = before.tx

\* A timestamp was overwritten by a smaller one.
C11_Witness ==
  /\ op = "write_tx_graph" /\ result = "Ok"
  /\ \E t \in Txids, col \in Timestamps :
       /\ t \in DOMAIN arg[col]
       /\ \E o \in Stored(before, t, col) : IsSome(o) /\ Unwrap(o) > arg[col][t]
       /\ Stored(pool, t, col) = {Some(arg[col][t])}

\* ============================================== the insert-ignore relations
\* Anchors of transaction 1 at height 1, in either block and with any
\* confirmation time.
AnchorEntries ==
  {[height |-> 1, hash |-> h, confirmation_time |-> t, txid |-> 1] :
     h \in BlockHashes, t \in U64Values}

\* Tx-graph deltas of one or two anchors (two may share their key and differ
\* in the confirmation time), and indexer deltas of cached scripts.
AnchorGraphs ==
  {[EmptyTxGraph EXCEPT !.anchors = {a, b}] : a \in AnchorEntries, b \in AnchorEntries}

SpkIndexers ==
  {[EmptyIndexer EXCEPT !.spk_cache = [d \in {1} |-> m]] : m \in PartialFns(Indices, Scripts)}

NextInsertIgnore ==
  \/ \E g \in AnchorGraphs : WriteTxGraph(g)
  \/ \E k \in SpkIndexers : WriteKeychainTxout(k)
  \/ ReadTxGraph
  \/ ReadKeychainTxout

\* Writes and reads of the anchor and keychain_script_pubkey relations on a
\* migrated store.
SpecInsertIgnore == InitMigrated /\ [][NextInsertIgnore]_vars

\* C8: an anchor recorded for a (height, hash, txid) key keeps its
\* confirmation time through every later write, and the relation and the
\* snapshot hold exactly one anchor for that key; a script cached for a
\* (descriptor, index) key is never overwritten.
C8_InsertIgnoreImmutable ==
  /\ before.anchor \subseteq pool.anchor
  /\ \A r \in pool.anchor, q \in pool.anchor : AnchorKey(r) = AnchorKey(q) => r = q
  /\ \A nullAs \in NullDecode : \A res \in read_tx_graph(pool, nullAs) :
       /\ res.res = "Ok"
       /\ \A r \in pool.anchor :
            Cardinality({a \in Unwrap(res.value).anchors :
                           <<a.height, HashToString(a.hash), TxidToString(a.txid)>>
                             = AnchorKey(r)}) = 1
  /\ before.keychain_script_pubkey \subseteq pool.keychain_script_pubkey
  /\ \A r \in pool.keychain_script_pubkey, q \in pool.keychain_script_pubkey :
       ScriptPubkeyKey(r) = ScriptPubkeyKey(q) => r = q

\* An anchor was written again with another confirmation time, and the
\* stored row kept the first one.
C8_Witness ==
  /\ op = "write_tx_graph" /\ result = "Ok"
  /\ \E a \in arg.anchors, r \in before.anchor :
       /\ AnchorKey(r) = <<a.height, HashToString(a.hash), TxidToString(a.txid)>>
       /\ r.confirmation_time # a.confirmation_time
       /\ r \in pool.anchor

\* ======================================================= the stored integers
\* Databases another writer left behind: at most one row in each of tx, txout
\* and anchor, well-formed except that an integer may be negative.
StoredInts == {-1, 1}

ExistingDbs ==
  {[EmptyDb EXCEPT !.tx = tx, !.txout = txout, !.anchor = anchor] :
     tx \in {{}} \cup {{[txid |-> TxidToString(1), tx |-> Some(Serialize(1)),
                          first_seen |-> Some(a), last_seen |-> Some(b),
                          last_evicted |-> Some(c)]} :
                        a \in StoredInts, b \in StoredInts, c \in StoredInts},
     txout \in {{}} \cup {{[txid |-> TxidToString(1), vout |-> 0, value |-> v,
                             script |-> "s1"]} : v \in StoredInts},
     anchor \in {{}} \cup {{[block_height |-> 1, block_hash |-> HashToString(1),
                              txid |-> TxidToString(1), confirmation_time |-> v]} :
                            v \in StoredInts}}

\* Deltas that write one integer, or a transaction with its three timestamps,
\* with every value of the unsigned range.
RangeGraphs ==
  {[EmptyTxGraph EXCEPT !.txs = {1}, !.first_seen = One(v), !.last_seen = One(v),
                        !.last_evicted = One(v)] : v \in U64Values}
  \cup {[EmptyTxGraph EXCEPT !.last_seen = One(v)] : v \in U64Values}
  \cup {[EmptyTxGraph EXCEPT !.txouts = [o \in {<<1, 0>>} |->
                                          [value |-> v, script_pubkey |-> "s1"]]] :
          v \in U64Values}
  \cup {[EmptyTxGraph EXCEPT !.anchors = {a}] : a \in AnchorEntries}

NextRange ==
  \/ \E g \in RangeGraphs : WriteTxGraph(g)
  \/ ReadTxGraph

\* write_tx_graph and read_tx_graph on a database that may hold negative
\* integers.
SpecRange == InitExisting(ExistingDbs) /\ [][NextRange]_vars

\* The rows of a relation that hold the key of an output or an anchor.
TxoutRows(db, o)  == {r \in db.txout : TxoutKey(r) = <<TxidToString(o[1]), o[2]>>}
AnchorRows(db, a) ==
  {r \in db.anchor : AnchorKey(r) = <<a.height, HashToString(a.hash), TxidToString(a.txid)>>}

TooLarge(u) == u > I64_MAX

\* Whether a stored amount or timestamp is negative.
HasNegative(db) ==
  \/ \E r \in db.tx, col \in Timestamps : IsSome(r[col]) /\ Unwrap(r[col]) < 0
  \/ \E r \in db.txout : r.value < 0
  \/ \E r \in db.anchor : r.confirmation_time < 0

\* Whether every row of tx holds its transaction and its three timestamps.
NoNull(db) ==
  \A r \in db.tx : IsSome(r.tx) /\ \A col \in Timestamps : IsSome(r[col])

\* C12: range rejection.  A write with a timestamp, an output value or a
\* confirmation time above i64::MAX returns the integer conversion error and
\* leaves the column, or the row, it was to write as it was.  A read of a
\* store that holds a negative amount or timestamp never returns a value,
\* and returns the integer conversion error when nothing else is wrong with
\* the rows.
C12_RangeRejection ==
  /\ op = "write_tx_graph" =>
       /\ \A col \in Timestamps : \A t \in DOMAIN arg[col] :
            TooLarge(arg[col][t]) =>
              /\ result = "FromInt"
              /\ \/ Stored(pool, t, col) = Stored(before, t, col)
                 \/ Stored(before, t, col) = {} /\ Stored(pool, t, col) = {None}
       /\ \A o \in DOMAIN arg.txouts :
            TooLarge(arg.txouts[o].value) =>
              result = "FromInt" /\ TxoutRows(pool, o) = TxoutRows(before, o)
       /\ \A a \in arg.anchors :
            (TooLarge(a.confirmation_time)
               /\ \A b \in arg.anchors \ {a} :
                    <<b.height, b.hash, b.txid>> # <<a.height, a.hash, a.txid>>) =>
              result = "FromInt" /\ AnchorRows(pool, a) = AnchorRows(before, a)
  /\ HasNegative(pool) =>
       \A nullAs \in NullDecode : \A r \in read_tx_graph(pool, nullAs) :
         /\ r.res # "Ok" /\ r.value = None
         /\ NoNull(pool) => r.res = "FromInt"
  /\ (op = "read_tx_graph" /\ HasNegative(pool)) => (result # "Ok" /\ returned = None)

\* A write was rejected for an integer above i64::MAX, on a store that holds
\* a negative integer and whose read returns the conversion error.
C12_Witness ==
  /\ op = "write_tx_graph" /\ result = "FromInt" /\ pool = before
  /\ \E o \in DOMAIN arg.txouts : TooLarge(arg.txouts[o].value)
  /\ HasNegative(pool) /\ NoNull(pool)
  /\ \A nullAs \in NullDecode : read_tx_graph(pool, nullAs) = {Failed("FromInt")}

\* ============================================================ stored rows
\* Databases whose rows another writer, or a damaged file, left behind: in
\* each relation no row, a well-formed row, or a row one of whose columns
\* does not decode.
GoodTx ==
  [txid |-> TxidToString(1), tx |-> Some(Serialize(1)), first_seen |-> Some(1),
   last_seen |-> Some(1), last_evicted |-> Some(1)]

CorruptDbs ==
  {[EmptyDb EXCEPT !.network = network, !.keychain = keychain, !.block = block,
                   !.tx = tx, !.txout = txout] :
     network \in {{}, {[network |-> NetworkToString("bitcoin")]},
                  {[network |-> <<"not a network">>]}},
     keychain \in {{}, {[keychain |-> External, descriptor |-> DescriptorToString("wpkh(A)")]},
                   {[keychain |-> External, descriptor |-> <<"not a descriptor">>]}},
     block \in {{}, {[height |-> 1, hash |-> HashToString(1)]},
                {[height |-> 1, hash |-> <<"not a hash">>]}},
     tx \in {{}, {GoodTx}, {[GoodTx EXCEPT !.txid = <<"not a txid">>]},
             {[GoodTx EXCEPT !.tx = Some(<<"not a transaction">>)]},
             {[GoodTx EXCEPT !.last_seen = Some(-1)]}},
     txout \in {{}, {[txid |-> TxidToString(1), vout |-> 0, value |-> 1, script |-> "s1"]},
                {[txid |-> TxidToString(1), vout |-> 0, value |-> -1, script |-> "s1"]}}}

\* Change sets persisted over such a database: a transaction with every
\* field, a retraction of height 1.
CorruptChangeSets ==
  {[EmptyChangeSet EXCEPT !.tx_graph = Complete],
   [EmptyChangeSet EXCEPT !.local_chain = [blocks |-> [h \in {1} |-> None]]]}

NextCorrupt ==
  \/ Initialize
  \/ \E cs \in CorruptChangeSets : Persist(cs)

\* The persister on a database that exists already.
SpecCorrupt == InitExisting(CorruptDbs) /\ [][NextCorrupt]_vars

\* The decode errors of the rows of a database: for each relation the error
\* of each row that does not decode.
RowDecodeErrors(db) ==
  {"ParseNetwork" : r \in {q \in db.network : ~IsSome(ParseNetwork(q.network))}}
  \cup {"Miniscript" : r \in {q \in db.keychain : ~IsSome(DescriptorFromStr(q.descriptor))}}
  \cup {"HexToArray" : r \in {q \in db.block : ~IsSome(ParseHash(q.hash))}}
  \cup {"HexToArray" : r \in {q \in db.keychain_last_revealed \cup db.keychain_script_pubkey :
                                 ~IsSome(ParseDescriptorId(q.descriptor_id))}}
  \cup ({TxRow(r, "default") : r \in db.tx} \ {"Ok"})
  \cup ({TxoutRow(r) : r \in db.txout} \ {"Ok"})
  \cup ({AnchorRow(r) : r \in db.anchor} \ {"Ok"})

\* C13: all-or-nothing read.  When a stored row of any relation does not
\* decode, initialize fails with the decode error of such a row and returns
\* no change set.
C13_AllOrNothingRead ==
  (op = "initialize" /\ RowDecodeErrors(pool) # {})
  => (result \in RowDecodeErrors(pool) /\ returned = None)

\* ========================================================= partial writes
\* The part of a tx-graph delta that write_tx_graph has written when it
\* returns at the first integer above i64::MAX: the collections before the
\* failing one whole, the entries of the failing one before the failing
\* entry, nothing after it.
Below(m, bad) == [k \in {j \in DOMAIN m : \A b \in bad : LexLess(<<j>>, <<b>>)} |-> m[k]]

WrittenPart(g) ==
  LET bad(col) == {t \in DOMAIN g[col] : TooLarge(g[col][t])}
      badOut   == {o \in DOMAIN g.txouts : TooLarge(g.txouts[o].value)}
      badAnc   == {a \in g.anchors : TooLarge(a.confirmation_time)}
      key(a)   == <<a.height, a.hash, a.confirmation_time, a.txid>>
      p1 == [EmptyTxGraph EXCEPT !.txs = g.txs,
                                 !.first_seen = Below(g.first_seen, bad("first_seen"))]
      p2 == [p1 EXCEPT !.last_seen = Below(g.last_seen, bad("last_seen"))]
      p3 == [p2 EXCEPT !.last_evicted = Below(g.last_evicted, bad("last_evicted"))]
      p4 == [p3 EXCEPT !.txouts =
               [o \in {j \in DOMAIN g.txouts : \A b \in badOut : LexLess(j, b)} |->
                  g.txouts[o]]]
      p5 == [p4 EXCEPT !.anchors =
               {a \in g.anchors : \A b \in badAnc : LexLess(key(a), key(b))}]
  IN IF bad("first_seen") # {} THEN p1
     ELSE IF bad("last_seen") # {} THEN p2
     ELSE IF bad("last_evicted") # {} THEN p3
     ELSE IF badOut # {} THEN p4
     ELSE p5

\* C14: no rollback.  When write_tx_graph fails partway, the store is what
\* it was plus the rows written before the failure (the failing row and the
\* rows after it are not written), writing those rows again changes
\* nothing, and the next snapshot succeeds and contains them.
C14_NoRollback ==
  (op = "write_tx_graph" /\ result = "FromInt") =>
    /\ pool = write_tx_graph(before, WrittenPart(arg)).db
    /\ pool = write_tx_graph(pool, WrittenPart(arg)).db
    /\ \A nullAs \in NullDecode : \A r \in read_tx_graph(pool, nullAs) :
         /\ r.res = "Ok"
         /\ Contains([tx_graph |-> Unwrap(r.value)],
                     [EmptyChangeSet EXCEPT !.tx_graph = WrittenPart(arg)])

\* C15: order independence.  For the delta B the last write applied to the
\* store it found, and every delta A: B then A yields the same snapshot as A
\* then B.
C15_OrderIndependent ==
  /\ op = "write_tx_graph" =>
       \A a \in UpsertGraphs : \A nullAs \in NullDecode :
         read_tx_graph(write_tx_graph(pool, a).db, nullAs)
           = read_tx_graph(write_tx_graph(write_tx_graph(before, a).db, arg).db, nullAs)
  /\ op = "write_keychain_txout" =>
       \A a \in UpsertIndexers :
         read_keychain_txout(write_keychain_txout(pool, a).db)
           = read_keychain_txout(
               write_keychain_txout(write_keychain_txout(before, a).db, arg).db)

\* ===================================================== dangling references
\* Deltas for two transactions, in any order of arrival: an output, an
\* anchor, or the transaction with its three timestamps.
DanglingTxids == {1, 2}

DanglingGraphs ==
  {[EmptyTxGraph EXCEPT !.txouts = [o \in {<<t, 0>>} |-> [value |-> v, script_pubkey |-> "s1"]]] :
     t \in DanglingTxids, v \in U64Values}
  \cup {[EmptyTxGraph EXCEPT !.anchors =
            {[height |-> 1, hash |-> 1, confirmation_time |-> v, txid |-> t]}] :
          t \in DanglingTxids, v \in U64Values}
  \cup {[EmptyTxGraph EXCEPT !.txs = {t}, !.first_seen = [x \in {t} |-> v],
                             !.last_seen = [x \in {t} |-> v],
                             !.last_evicted = [x \in {t} |-> v]] :
          t \in DanglingTxids, v \in {1, MaxU64}}

NextDangling ==
  \/ \E g \in DanglingGraphs : WriteTxGraph(g)
  \/ ReadTxGraph

\* Outputs, anchors and transactions written in any order on a migrated
\* store.
SpecDangling == InitMigrated /\ [][NextDangling]_vars

\* Whether the tx relation holds a row of transaction t.
HasTx(db, t) == \E r \in db.tx : r.txid = TxidToString(t)

RECURSIVE Norm(_)
Norm(segs) ==
  IF segs = <<>> THEN <<>>
  ELSE IF Head(segs) = <<>> THEN Norm(Tail(segs))
  ELSE IF Head(Head(segs)).stmt = "FromInt" THEN Norm(Tail(segs))
  ELSE segs

\* The call after a step that leaves it the statements segs.
Advance(c, segs) ==
  [c EXCEPT !.segs = Norm(segs), !.sel = None,
            !.status = IF Norm(segs) = <<>> THEN "done" ELSE "running"]

\* The statements left once the one in hand has run.
Rest(segs) == <<Tail(Head(segs))>> \o Tail(segs)

\* A task starts a call with the statements of its methods.
Begin(task, delta, segs) ==
  /\ calls[task].status = "idle"
  /\ calls' = [calls EXCEPT ![task] = Advance([Idle EXCEPT !.delta = Some(delta)], segs)]
  /\ UNCHANGED <<pool, before, op, arg, result, returned, dropped>>

\* write_local_chain, `Some(hash)` arm: the SELECT.  A row found ends the
\* statement; none found leaves the INSERT to issue.
SelectBlock(task) ==
  LET c == calls[task] IN
  /\ c.status = "running" /\ c.sel = None
  /\ Head(Head(c.segs)).stmt = "put_block"
  /\ calls' = [calls EXCEPT ![task] =
                 IF SelectBlockHeight(pool, Head(Head(c.segs)).height) = {}
                 THEN [c EXCEPT !.sel = Some(TRUE)]
                 ELSE Advance(c, Rest(c.segs))]
  /\ UNCHANGED <<pool, before, op, arg, result, returned, dropped>>

\* write_local_chain, `Some(hash)` arm: the INSERT OR IGNORE, issued when the
\* SELECT found no row.
InsertBlock(task) ==
  LET c == calls[task]
      s == Head(Head(c.segs))
  IN /\ c.status = "running" /\ c.sel = Some(TRUE)
     /\ pool' = InsertOrIgnoreBlock(pool, s.height, s.hash).db
     /\ calls' = [calls EXCEPT ![task] = Advance(c, Rest(c.segs))]
     /\ UNCHANGED <<before, op, arg, result, returned, dropped>>

\* Any other statement: it runs; if it fails its method returns there.
ExecuteNext(task) ==
  LET c == calls[task]
      r == Execute(pool, Head(Head(c.segs)))
  IN /\ c.status = "running"
     /\ Head(Head(c.segs)).stmt # "put_block"
     /\ pool' = r.db
     /\ calls' = [calls EXCEPT ![task] =
                    Advance(c, IF r.res = "Ok" THEN Rest(c.segs) ELSE Tail(c.segs))]
     /\ UNCHANGED <<before, op, arg, result, returned, dropped>>

\* The call's future resolves; the task may call again.
Return(task) ==
  /\ calls[task].status = "done"
  /\ calls' = [calls EXCEPT ![task] = Idle]
  /\ UNCHANGED <<pool, before, op, arg, result, returned, dropped>>

\* The statements of Store::write_local_chain.
ChainStmts(local_chain) ==
  InKeyOrder({<<(<<h>>), BlockStmt(h, local_chain.blocks[h])>> : h \in DOMAIN local_chain.blocks})

NextConcurrentChain ==
  \E task \in Tasks :
    \/ \E c \in LocalChains : Begin(task, c, <<ChainStmts(c)>>)
    \/ SelectBlock(task)
    \/ InsertBlock(task)
    \/ ExecuteNext(task)
    \/ Return(task)

\* Concurrent write_local_chain calls on a migrated store.
SpecConcurrentChain == InitMigrated /\ [][NextConcurrentChain]_vars

\* C17: under every interleaving of concurrent write_local_chain calls the
\* block relation holds at most one row per height.
C17_OneRowPerHeight ==
  \A h \in Heights : Cardinality(RowsAt(pool, h)) <= 1

\* The statements of Store::write_tx_graph and Store::write_keychain_txout.
TxGraphStmts(g) ==
  TxStmts(g.txs) \o TimeStmts("first_seen", g.first_seen)
  \o TimeStmts("last_seen", g.last_seen) \o TimeStmts("last_evicted", g.last_evicted)
  \o TxoutStmts(g.txouts) \o AnchorStmts(g.anchors)

KeychainStmts(k) == LastRevealedStmts(k.last_revealed) \o SpkStmts(k.spk_cache)

\* The statements of persist for a change set without network and
\* descriptors: those of write_local_chain, write_tx_graph and
\* write_keychain_txout, each method going on where the one before returned.
PersistSegs(cs) ==
  <<ChainStmts(cs.local_chain), TxGraphStmts(cs.tx_graph), KeychainStmts(cs.indexer)>>

\* Change sets with overlapping keys: a first-seen and a last-seen time of
\* transaction 1 and the last revealed index of descriptor 1.
ConcurrentChangeSets ==
  {[EmptyChangeSet EXCEPT
      !.tx_graph = [EmptyTxGraph EXCEPT !.first_seen = One(v), !.last_seen = One(v)],
      !.indexer = [EmptyIndexer EXCEPT !.last_revealed = [d \in {1} |-> i]]] :
     v \in {1, 2}, i \in Indices}

NextConcurrentPersist ==
  \E task \in Tasks :
    \/ \E cs \in ConcurrentChangeSets : Begin(task, cs, PersistSegs(cs))
    \/ ExecuteNext(task)

\* Two tasks, each persisting one change set on a migrated empty store.
SpecConcurrentPersist == InitMigrated /\ [][NextConcurrentPersist]_vars

\* The store after persist(a) and then persist(b), one after the other, on
\* an empty store.
Serial(a, b) == write_changeset(write_changeset(EmptyDb, a).db, b).db

BothDone == \A task \in Tasks : calls[task].status = "done"

\* The deltas of the calls in flight or done.
Deltas == {Unwrap(calls[task].delta) : task \in {x \in Tasks : calls[x].status # "idle"}}

\* C18: concurrent persist calls are not isolated.  Each statement is atomic
\* and nothing larger is: once both calls are done the store holds one row
\* per key and every column written holds the value one of the two deltas
\* gave it, in any combination; the witness is a combination that neither
\* serial order produces.
C18_NotIsolated ==
  BothDone =>
    /\ Cardinality(pool.tx) = 1 /\ Cardinality(pool.keychain_last_revealed) = 1
    /\ \A r \in pool.tx :
         /\ r.first_seen \in {Some(d.tx_graph.first_seen[1]) : d \in Deltas}
         /\ r.last_seen \in {Some(d.tx_graph.last_seen[1]) : d \in Deltas}
    /\ \A r \in pool.keychain_last_revealed :
         r.last_revealed \in {d.indexer.last_revealed[1] : d \in Deltas}

\* Both calls are done and the store is the outcome of neither serial order:
\* it holds the first-seen time of one delta and the last-seen time or the
\* last revealed index of the other.
C18_Witness ==
  /\ BothDone
  /\ \A a \in Deltas, b \in Deltas : pool # Serial(a, b)
  /\ \E a \in Deltas, b \in Deltas, r \in pool.tx, k \in pool.keychain_last_revealed :
       /\ a # b
       /\ r.first_seen = Some(a.tx_graph.first_seen[1])
       /\ \/ r.last_seen = Some(b.tx_graph.last_seen[1]) /\ r.last_seen # r.first_seen
          \/ /\ k.last_revealed = b.indexer.last_revealed[1]
             /\ k.last_revealed # a.indexer.last_revealed[1]

\* ============================================================ column frame
\* Deltas that write one field of one of two transactions.
FrameTxids == {1, 2}

FrameGraphs ==
  {[EmptyTxGraph EXCEPT !.txs = {t}] : t \in FrameTxids}
  \cup {[EmptyTxGraph EXCEPT ![col] = [x \in {1} |-> v]] : col \in Timestamps, v \in {1, 2}}
  \cup {[EmptyTxGraph EXCEPT !.first_seen = [x \in {2} |-> 1]]}

NextFrame ==
  \/ \E g \in FrameGraphs : WriteTxGraph(g)
  \/ ReadTxGraph

\* Single-field writes of the tx relation on a migrated store.
SpecFrame == InitMigrated /\ [][NextFrame]_vars

\* Whether the delta g writes the column col of the row of txid.
Names(g, txid, col) ==
  IF col = "tx" THEN \E t \in g.txs : TxidToString(t) = txid
  ELSE \E t \in DOMAIN g[col] : TxidToString(t) = txid

\* C19: column frame of the transaction upsert.  A write keeps every row of
\* tx, one per txid; a column of a row changes only if the write names that
\* column of that txid; every other column, every other row and every other
\* relation is as it was.
C19_ColumnFrame ==
  op = "write_tx_graph" =>
    /\ \A r \in before.tx :
         \E q \in pool.tx :
           /\ q.txid = r.txid
           /\ \A col \in {"tx"} \cup Timestamps : q[col] # r[col] => Names(arg, r.txid, col)
    /\ \A q \in pool.tx :
         /\ \A p \in pool.tx : p.txid = q.txid => p = q
         /\ (\A r \in before.tx : r.txid # q.txid) =>
              \A col \in {"tx"} \cup Timestamps : IsSome(q[col]) => Names(arg, q.txid, col)
    /\ [pool EXCEPT !.tx = before.tx] = before

\* One field of a row whose four fields were set was overwritten, next to a
\* row of the other transaction; the other three fields and the other row
\* are as they were.
C19_Witness ==
  /\ op = "write_tx_graph" /\ result = "Ok"
  /\ Cardinality(before.tx) = 2
  /\ \E r \in before.tx, q \in pool.tx, col \in Timestamps :
       /\ q.txid = r.txid /\ q # r /\ q = [r EXCEPT ![col] = q[col]]
       /\ IsSome(r.tx) /\ \A c \in Timestamps : IsSome(r[c])
       /\ pool.tx \ {q} = before.tx \ {r}

\* =============================================================== lifecycle
\* Change sets of one part each: a network, a descriptor, a block hash or a
\* retraction at one height, a tx-graph delta, an indexer delta.
LifecycleChangeSets ==
  {[EmptyChangeSet EXCEPT !.network = Some("bitcoin")],
   [EmptyChangeSet EXCEPT !.descriptor = Some("wpkh(A)")],
   [EmptyChangeSet EXCEPT !.change_descriptor = Some("wpkh(B)")],
   [EmptyChangeSet EXCEPT !.indexer =
      [last_revealed |-> [d \in {1} |-> 0],
       spk_cache |-> [d \in {1} |-> [i \in {0} |-> "s1"]]]]}
  \cup {[EmptyChangeSet EXCEPT !.local_chain = [blocks |-> [x \in {h} |-> v]]] :
          h \in Heights, v \in {None, Some(1)}}
  \cup {[EmptyChangeSet EXCEPT !.tx_graph = g] : g \in {SeenTooLate, SeenUnknown, Complete}}

NextLifecycle ==
  \/ Initialize
  \/ \E cs \in LifecycleChangeSets : Persist(cs)

\* The persister on a migrated store, every relation written.
SpecLifecycle == InitMigrated /\ [][NextLifecycle]_vars

\* The keys of the rows of each relation but block.
KeySets(db) ==
  [ network  |-> {NetworkKey(r) : r \in db.network},
    keychain |-> {KeychainKey(r) : r \in db.keychain},
    tx       |-> {TxKey(r) : r \in db.tx},
    txout    |-> {TxoutKey(r) : r \in db.txout},
    anchor   |-> {AnchorKey(r) : r \in db.anchor},
    keychain_last_revealed |-> {LastRevealedKey(r) : r \in db.keychain_last_revealed},
    keychain_script_pubkey |-> {ScriptPubkeyKey(r) : r \in db.keychain_script_pubkey} ]

\* C20: rows are only ever removed from the block relation.  No operation
\* shrinks the key set of any other relation, and a row of block disappears
\* only in a write whose local-chain delta maps the row's height to unknown.
C20_OnlyBlocksRemoved ==
  /\ \A rel \in DOMAIN KeySets(before) : KeySets(before)[rel] \subseteq KeySets(pool)[rel]
  /\ \A r \in before.block \ pool.block :
       /\ op = "persist"
       /\ r.height \in DOMAIN arg.local_chain.blocks
       /\ arg.local_chain.blocks[r.height] = None

\* A retraction removed the row of its height from a store that holds rows
\* in every relation, and removed nothing else.
C20_Witness ==
  /\ op = "persist"
  /\ before.block \ pool.block # {}
  /\ pool.block # {}
  /\ \A rel \in DOMAIN KeySets(pool) : KeySets(pool)[rel] # {}
  /\ KeySets(pool) = KeySets(before)

\* =========================================================== keychain roles
\* The role codes a keychain row can hold: the two the writer stores and one
\* it never does.
RoleCodes == {External, Internal, 2}

\* Existing databases with at most one keychain row per role code.
RoleDbs ==
  {[EmptyDb EXCEPT !.keychain = {[keychain |-> k, descriptor |-> DescriptorToString(f[k])] :
                                   k \in DOMAIN f}] :
     f \in PartialFns(RoleCodes, Descriptors)}

RoleChangeSets ==
  {[EmptyChangeSet EXCEPT !.descriptor = Some(d)] : d \in Descriptors}
  \cup {[EmptyChangeSet EXCEPT !.change_descriptor = Some("wpkh(B)")]}

\* Store::read_keychain_descriptors called on the handle.

NextRole ==
  \/ Reading("read_keychain_descriptors", read_keychain_descriptors(pool))
  \/ Initialize
  \/ \E cs \in RoleChangeSets : Persist(cs)

\* The descriptors written and read on a database that exists already.
SpecRole == InitExisting(RoleDbs) /\ [][NextRole]_vars

\* C21: reading a keychain row whose role code is neither 0 (external) nor
\* 1 (internal) makes read_keychain_descriptors fail with an error value
\* and return no descriptors; it does not abort.
C21_UnknownRoleDecodeError ==
  ( /\ op = "read_keychain_descriptors"
    /\ \E r \in pool.keychain : r.keychain \notin {External, Internal} )
  => (result \notin {"Ok", "panic"} /\ returned = None)

====
